---- MODULE Spec2Model ----
(***************************************************************************)
(* Model of src/main.py: the TypeScript/JavaScript dependency-graph        *)
(* generator (import extraction, import resolution, graph building and     *)
(* Mermaid rendering).                                                     *)
(*                                                                         *)
(* Representation.                                                         *)
(*   - A file name is the sequence of its dot-separated components:        *)
(*     "a.ts" is <<"a", "ts">>, "src" is <<"src">>.  The special names     *)
(*     "." and ".." are the one-component names <<".">> and <<"..">>.      *)
(*   - A path is a record [abs, parts]: abs tells whether it is absolute,  *)
(*     parts is the sequence of its names ("/proj/a.ts" is                 *)
(*     [abs |-> TRUE, parts |-> <<<<"proj">>, <<"a", "ts">>>>]).           *)
(*   - An extension ".ts" is the component "ts".                           *)
(*   - An optional value is a sequence of length 0 (None) or 1.            *)
(*   - The file system is the pair (files, dirs) of the absolute paths     *)
(*     that are regular files and directories; there are no symlinks.      *)
(***************************************************************************)
EXTENDS Integers, Sequences, FiniteSets, TLC

VARIABLES
    files,      \* absolute parts of the regular files on disk
    dirs,       \* absolute parts of the directories on disk
    content,    \* file parts -> text of the file (a sequence of lines)
    unreadable, \* files whose read_text raises
    rootArg,    \* the project_path argument of the run
    pc,         \* position of the run
    remaining,  \* entries rglob has not yielded yet
    graph,      \* the dict under construction, in insertion order
    output,     \* what main printed (optional)
    prev,       \* outcome of the previous run of main (optional)
    base,       \* argument of find_actual_file under test
    result      \* value returned by the function under test

vars == <<files, dirs, content, unreadable, rootArg, pc, remaining, graph,
          output, prev, base, result>>

----------------------------------------------------------------------------
(* Optional values *)

None == <<>>

Some(x) == <<x>>

----------------------------------------------------------------------------
(* Names and paths (pathlib.Path) *)

Cur == <<".">>

Up == <<"..">>

AbsPath(parts) == [abs |-> TRUE, parts |-> parts]

RelPath(parts) == [abs |-> FALSE, parts |-> parts]

\* the working directory of the process: the file-system root
Cwd == AbsPath(<<>>)

\* file_extensions of main, in order
FileExtensions == <<"ts", "tsx", "js", "jsx">>

\* Path.suffix of the last name of a path
Suffix(p) ==
    IF Len(p.parts) = 0 THEN ""
    ELSE LET name == p.parts[Len(p.parts)]
         IN  IF Len(name) > 1 THEN name[Len(name)] ELSE ""

\* Path.parent
Parent(p) ==
    IF Len(p.parts) = 0 THEN p
    ELSE [p EXCEPT !.parts = SubSeq(p.parts, 1, Len(p.parts) - 1)]

\* p / segs for a relative string split at "/": "." segments are dropped by
\* pathlib, ".." segments are kept
RECURSIVE DropCur(_)
DropCur(segs) ==
    IF segs = <<>> THEN <<>>
    ELSE IF Head(segs) = Cur THEN DropCur(Tail(segs))
    ELSE <<Head(segs)>> \o DropCur(Tail(segs))

Join(p, segs) == [p EXCEPT !.parts = p.parts \o DropCur(segs)]

\* Path(str(p) + ext): the extension is appended to the last name
AppendExt(p, ext) ==
    LET n == Len(p.parts)
    IN  [p EXCEPT !.parts = SubSeq(p.parts, 1, n - 1) \o <<Append(p.parts[n], ext)>>]

\* Path.resolve(): made absolute against the working directory, ".." folded
RECURSIVE Fold(_, _)
Fold(done, todo) ==
    IF todo = <<>> THEN done
    ELSE IF Head(todo) = Up
         THEN Fold(IF done = <<>> THEN <<>> ELSE SubSeq(done, 1, Len(done) - 1),
                   Tail(todo))
    ELSE IF Head(todo) = Cur THEN Fold(done, Tail(todo))
    ELSE Fold(Append(done, Head(todo)), Tail(todo))

Resolve(p) ==
    AbsPath(Fold(<<>>, IF p.abs THEN p.parts ELSE Cwd.parts \o p.parts))

IsPrefix(s, t) == Len(s) <= Len(t) /\ SubSeq(t, 1, Len(s)) = s

\* mutant: a path outside other is not refused but reached with ".." steps,
\* as os.path.relpath does
RECURSIVE CommonLen(_, _)
CommonLen(s, t) ==
    IF s = <<>> \/ t = <<>> \/ Head(s) # Head(t) THEN 0
    ELSE 1 + CommonLen(Tail(s), Tail(t))

RelativeToWalkUp(p, other) ==
    LET q == Resolve(p).parts
        o == Resolve(other).parts
        c == CommonLen(q, o)
    IN  Some([k \in 1..(Len(o) - c) |-> Up] \o SubSeq(q, c + 1, Len(q)))

\* Path.relative_to(other): the optional relative parts; None stands for the
\* ValueError it raises
RelativeTo(p, other) ==
    IF p.abs = other.abs /\ IsPrefix(other.parts, p.parts)
    THEN Some(SubSeq(p.parts, Len(other.parts) + 1, Len(p.parts)))
    ELSE None

\* Path.is_file(), Path.exists(): the path is made absolute by the OS
IsFile(p) == Resolve(p).parts \in files

IsDir(p) == Resolve(p).parts \in dirs

Exists(p) == IsFile(p) \/ IsDir(p)

----------------------------------------------------------------------------
(* find_actual_file *)

\* first index.<ext> of the directory that is a file, from extension k on
RECURSIVE IndexLoop(_, _, _)
IndexLoop(base_path, extensions, k) ==
    IF k > Len(extensions) THEN None
    ELSE LET index_file_path == Join(base_path, <<<<"index", extensions[k]>>>>)
         IN  IF IsFile(index_file_path) THEN Some(index_file_path)
             ELSE IndexLoop(base_path, extensions, k + 1)

\* first base_path + ext that is a file, from extension k on
RECURSIVE ExtLoop(_, _, _)
ExtLoop(base_path, extensions, k) ==
    IF k > Len(extensions) THEN None
    ELSE LET file_path == AppendExt(base_path, extensions[k])
         IN  IF IsFile(file_path) THEN Some(file_path)
             ELSE ExtLoop(base_path, extensions, k + 1)

\* mutant: the appended extensions are tried before the directory index
find_actual_file_ext_first(base_path, extensions) ==
    IF Exists(base_path) /\ IsFile(base_path) THEN Some(base_path)
    ELSE IF ExtLoop(base_path, extensions, 1) # None
         THEN ExtLoop(base_path, extensions, 1)
    ELSE IF Exists(base_path) THEN IndexLoop(base_path, extensions, 1)
    ELSE None

find_actual_file(base_path, extensions) ==
    IF Exists(base_path) /\ IsFile(base_path) THEN Some(base_path)
    ELSE IF Exists(base_path) /\ IndexLoop(base_path, extensions, 1) # None
         THEN IndexLoop(base_path, extensions, 1)
    ELSE ExtLoop(base_path, extensions, 1)

----------------------------------------------------------------------------
(* get_typescript_dependencies                                              *)
(*                                                                          *)
(* A text is a sequence of lines and a line a sequence of tokens            *)
(* [t, v]: "ws" a run of blanks, "cmt" the marker //, "import" and "from"   *)
(* the keywords, "bind" a run of binding text ([\w*{},]+), "lp" and "rp"    *)
(* the parentheses, "sq" and "dq" the quotes, "text" the characters         *)
(* between two quotes (v holds the specifier, split at "/"), "code" any     *)
(* other program text.                                                      *)

Tok(t) == [t |-> t, v |-> <<>>]

Str(spec) == [t |-> "text", v |-> spec]

Quotes == {"sq", "dq"}

\* characters of the class [\w*{}, ] and blanks, as tokens
BindingTokens == {"bind", "ws", "from", "import"}

\* ^\s* : the first position at or after p that holds no blank
RECURSIVE SkipWs(_, _)
SkipWs(line, p) ==
    IF p <= Len(line) /\ line[p].t = "ws" THEN SkipWs(line, p + 1) ELSE p

\* ['"]([^'"]+)['"] at position p: the optional captured group
MatchQuoted(line, p) ==
    IF /\ p + 2 <= Len(line)
       /\ line[p].t \in Quotes
       /\ line[p + 1].t \notin Quotes
       /\ line[p + 2].t \in Quotes
    THEN Some(line[p + 1].v)
    ELSE None

\* import(?:[\s,{]+[\w*{}, ]+[\s,}]*)?[\s]+from[\s]+ with "import" at p:
\* the positions of a "from" that ends the prefix
FromPositions(line, p) ==
    {f \in (p + 2)..(Len(line) - 1) :
        /\ line[f].t = "from"
        /\ line[f - 1].t = "ws"
        /\ line[f + 1].t = "ws"
        /\ \/ f - 1 = p + 1
           \/ /\ line[p + 1].t = "ws"
              /\ f - 2 >= p + 2
              /\ \A k \in (p + 2)..(f - 2) : line[k].t \in BindingTokens}

\* the first alternative of the pattern with "import" at p
MatchImportFrom(line, p) ==
    LET fs == {f \in FromPositions(line, p) : MatchQuoted(line, f + 2) # None}
    IN  IF fs = {} THEN None
        ELSE MatchQuoted(line, (CHOOSE f \in fs : \A g \in fs : g <= f) + 2)

\* the second alternative, import\( , with "import" at p
MatchImportCall(line, p) ==
    IF p + 1 <= Len(line) /\ line[p + 1].t = "lp"
    THEN MatchQuoted(line, p + 2)
    ELSE None

\* the pattern anchored at the start of the line (re.MULTILINE ^)
MatchLine(line) ==
    LET p == SkipWs(line, 1)
    IN  IF p > Len(line) THEN None
        ELSE IF line[p].t = "cmt" THEN None
        ELSE IF line[p].t # "import" THEN None
        ELSE IF MatchImportFrom(line, p) # None THEN MatchImportFrom(line, p)
        ELSE MatchImportCall(line, p)

\* re.findall over the text: the pattern can only match at a line start
RECURSIVE FindAll(_)
FindAll(text) ==
    IF text = <<>> THEN <<>>
    ELSE MatchLine(Head(text)) \o FindAll(Tail(text))

\* read_text of a path that is no file, or of a file in unreadable, raises;
\* both except clauses leave dependencies empty
get_typescript_dependencies(file_path) ==
    LET f == Resolve(file_path).parts
    IN  IF f \notin files \/ f \in unreadable THEN <<>>
        ELSE FindAll(content[f])

----------------------------------------------------------------------------
(* is_allowed, build_dependency_graph, generate_mermaid *)

NodeModules == <<"node_modules">>

SeqRange(q) == {q[k] : k \in 1..Len(q)}

\* mutant: the node_modules test is left out
is_allowed_suffix_only(file_path, file_extensions) ==
    Suffix(file_path) \in SeqRange(file_extensions)

is_allowed(file_path, file_extensions) ==
    IF \E k \in 1..Len(file_path.parts) : file_path.parts[k] = NodeModules
    THEN FALSE
    ELSE IF Suffix(file_path) \notin SeqRange(file_extensions) THEN FALSE
    ELSE TRUE

\* project_path_obj.rglob("*"): every entry below the directory, named from
\* the argument as given; nothing when the argument is no directory
RGlob(project_path_obj) ==
    IF ~IsDir(project_path_obj) THEN {}
    ELSE LET r == Resolve(project_path_obj).parts
         IN  {[project_path_obj EXCEPT
                  !.parts = @ \o SubSeq(e, Len(r) + 1, Len(e))] :
                e \in {x \in files \cup dirs : IsPrefix(r, x) /\ x # r}}

\* dep.startswith("."): the first name is ".", ".." or begins with a dot
StartsWithDot(dep) == dep # <<>> /\ Head(dep)[1] \in {".", "..", ""}

\* dep.startswith("@/")
StartsWithAlias(dep) == Len(dep) > 1 /\ Head(dep) = <<"@">>

\* project_path_obj / "src"
SrcPath(project_path_obj) == Join(project_path_obj, <<<<"src">>>>)

\* find_actual_file on the resolved path, then relative_to the project path:
\* [edge, raised], edge the optional relative path to append and raised
\* whether relative_to raised ValueError
Locate(absolute_dep_path, project_path_obj) ==
    LET found_dep_path == find_actual_file(absolute_dep_path, FileExtensions)
    IN  IF found_dep_path = None THEN [edge |-> None, raised |-> FALSE]
        ELSE LET rel == RelativeTo(found_dep_path[1], project_path_obj)
             IN  [edge |-> rel, raised |-> (rel = None)]

\* mutant: a specifier that is neither relative nor aliased is looked up
\* under src as well
ResolveDepBareUnderSrc(file_path, dep, project_path_obj) ==
    IF StartsWithDot(dep)
    THEN Locate(Resolve(Join(Parent(file_path), dep)), project_path_obj)
    ELSE IF StartsWithAlias(dep)
    THEN Locate(Resolve(Join(SrcPath(project_path_obj), Tail(dep))), project_path_obj)
    ELSE Locate(Resolve(Join(SrcPath(project_path_obj), dep)), project_path_obj)

\* the body of the loop over dependencies, for one dep
ResolveDep(file_path, dep, project_path_obj) ==
    IF StartsWithDot(dep)
    THEN Locate(Resolve(Join(Parent(file_path), dep)), project_path_obj)
    ELSE IF StartsWithAlias(dep)
    THEN Locate(Resolve(Join(SrcPath(project_path_obj), Tail(dep))), project_path_obj)
    ELSE [edge |-> None, raised |-> FALSE]

\* the loop over dependencies: [edges, raised], the list built so far and
\* whether the loop was left by an exception
RECURSIVE ResolveAll(_, _, _, _)
ResolveAll(file_path, dependencies, project_path_obj, edges) ==
    IF dependencies = <<>> THEN [edges |-> edges, raised |-> FALSE]
    ELSE LET r == ResolveDep(file_path, Head(dependencies), project_path_obj)
         IN  IF r.raised THEN [edges |-> edges, raised |-> TRUE]
             ELSE ResolveAll(file_path, Tail(dependencies), project_path_obj,
                             edges \o r.edge)

\* str.replace of ".", "/" and "-" by "_": the node id is the sequence of
\* the components of the path (no name of the tree holds a hyphen)
RECURSIVE Sanitize(_)
Sanitize(rel) ==
    IF rel = <<>> THEN <<>> ELSE Head(rel) \o Sanitize(Tail(rel))

EdgeStatement(file, dep) ==
    [file_node |-> Sanitize(file), file |-> file,
     dep_node |-> Sanitize(dep), dep |-> dep]

\* the text: the header line, then one statement per key and dependency in
\* dict order
RECURSIVE MermaidLines(_)
MermaidLines(g) ==
    IF g = <<>> THEN <<>>
    ELSE [k \in 1..Len(Head(g).deps) |-> EdgeStatement(Head(g).file, Head(g).deps[k])]
         \o MermaidLines(Tail(g))

generate_mermaid(g) == <<"graph LR">> \o MermaidLines(g)

----------------------------------------------------------------------------
(* Resolution of one base path over every small file-system snapshot *)

Proj == <<"proj">>

\* the project directory /proj
ProjDir == AbsPath(<<Proj>>)

\* the base path probed: /proj/a
ProbeBase == AbsPath(<<Proj, <<"a">>>>)

Kinds == {"none", "file", "dir"}

ExtIdx == 1..Len(FileExtensions)

\* paths of the given kind among base, base.<ext> and base/index.<ext>
ProbeSet(kind, kb, ke, ki) ==
    {ProbeBase.parts : x \in (IF kb = kind THEN {1} ELSE {})}
    \cup {AppendExt(ProbeBase, FileExtensions[k]).parts : k \in {j \in ExtIdx : ke[j] = kind}}
    \cup {Join(ProbeBase, <<<<"index", FileExtensions[k]>>>>).parts :
             k \in {j \in ExtIdx : ki[j] = kind}}

InitResolve ==
    /\ \E kb \in Kinds, ke \in [ExtIdx -> Kinds], ki \in [ExtIdx -> Kinds] :
          \* a directory entry exists only inside a directory
          /\ kb # "dir" => \A k \in ExtIdx : ki[k] = "none"
          /\ files = ProbeSet("file", kb, ke, ki)
          /\ dirs = {<<>>, ProjDir.parts} \cup ProbeSet("dir", kb, ke, ki)
    /\ base = ProbeBase
    /\ result = None
    /\ pc = "probe"
    /\ content = <<>>
    /\ unreadable = {}
    /\ rootArg = ProjDir
    /\ remaining = {}
    /\ graph = <<>>
    /\ output = None
    /\ prev = None

CallFindActualFile ==
    /\ pc = "probe"
    /\ result' = find_actual_file(base, FileExtensions)
    /\ pc' = "resolved"
    /\ UNCHANGED <<files, dirs, content, unreadable, rootArg, remaining, graph,
                   output, prev, base>>

NextResolve == CallFindActualFile

SpecResolve == InitResolve /\ [][NextResolve]_vars

----------------------------------------------------------------------------
(* Extraction from one file over every small text *)

\* longest text, in lines
MaxLines == 2

\* "./b" and "@/lib"
ScanSpecifiers == {<<Cur, <<"b">>>>, <<<<"@">>, <<"lib">>>>}

\* import { x } from '<spec>'
ImportFromLine(spec) ==
    <<Tok("import"), Tok("ws"), Tok("bind"), Tok("ws"), Tok("from"), Tok("ws"),
      Tok("sq"), Str(spec), Tok("sq")>>

\* import x from "<spec>", indented
IndentedImportLine(spec) ==
    <<Tok("ws"), Tok("import"), Tok("ws"), Tok("bind"), Tok("ws"), Tok("from"),
      Tok("ws"), Tok("dq"), Str(spec), Tok("dq")>>

\* import '<spec>'
SideEffectLine(spec) ==
    <<Tok("import"), Tok("ws"), Tok("sq"), Str(spec), Tok("sq")>>

\* import('<spec>')
ImportCallLine(spec) ==
    <<Tok("import"), Tok("lp"), Tok("sq"), Str(spec), Tok("sq"), Tok("rp")>>

\* const m = await import("<spec>")
InlineImportCallLine(spec) ==
    <<Tok("code"), Tok("ws"), Tok("import"), Tok("lp"), Tok("dq"), Str(spec),
      Tok("dq"), Tok("rp")>>

\*   // import { x } from '<spec>'
CommentedImportLine(spec) ==
    <<Tok("ws"), Tok("cmt"), Tok("ws")>> \o ImportFromLine(spec)

\* const x = 1
CodeLine == <<Tok("code")>>

ScanLines ==
    {CodeLine}
    \cup {ImportFromLine(d) : d \in ScanSpecifiers}
    \cup {IndentedImportLine(d) : d \in ScanSpecifiers}
    \cup {SideEffectLine(d) : d \in ScanSpecifiers}
    \cup {ImportCallLine(d) : d \in ScanSpecifiers}
    \cup {InlineImportCallLine(d) : d \in ScanSpecifiers}
    \cup {CommentedImportLine(d) : d \in ScanSpecifiers}

TextsOver(lines, n) == UNION {[1..k -> lines] : k \in 0..n}

\* the file scanned: /proj/a.ts
ScanFile == AbsPath(<<Proj, <<"a", "ts">>>>)

InitExtract ==
    /\ files = {ScanFile.parts}
    /\ dirs = {<<>>, ProjDir.parts}
    /\ content \in [files -> TextsOver(ScanLines, MaxLines)]
    /\ unreadable \in {{}, files}
    /\ base = ScanFile
    /\ result = <<>>
    /\ pc = "scan"
    /\ rootArg = ProjDir
    /\ remaining = {}
    /\ graph = <<>>
    /\ output = None
    /\ prev = None

CallGetDependencies ==
    /\ pc = "scan"
    /\ result' = get_typescript_dependencies(base)
    /\ pc' = "scanned"
    /\ UNCHANGED <<files, dirs, content, unreadable, rootArg, remaining, graph,
                   output, prev, base>>

NextExtract == CallGetDependencies

SpecExtract == InitExtract /\ [][NextExtract]_vars

----------------------------------------------------------------------------
(* A run of main over a project tree *)

\* most import statements in a.ts
MaxImports == 2

AFile == <<Proj, <<"a", "ts">>>>

BFile == <<Proj, <<"b", "ts">>>>

LibFile == <<Proj, <<"src">>, <<"lib", "ts">>>>

PkgFile == <<Proj, NodeModules, <<"pkg", "js">>>>

ReadmeFile == <<Proj, <<"readme", "md">>>>

OutFile == <<<<"out", "ts">>>>

TreeFiles == {AFile, BFile, LibFile, PkgFile, ReadmeFile, OutFile}

TreeDirs == {<<>>, <<Proj>>, <<Proj, <<"src">>>>, <<Proj, NodeModules>>}

\* "./b", "../out", "@/lib", "lib", "./node_modules/pkg", "./missing"
BuildSpecifiers ==
    {<<Cur, <<"b">>>>, <<Up, <<"out">>>>, <<<<"@">>, <<"lib">>>>, <<<<"lib">>>>,
     <<Cur, NodeModules, <<"pkg">>>>, <<Cur, <<"missing">>>>}

\* "./a"
ImportA == <<Cur, <<"a">>>>

\* "/proj", "proj", "/nope" (missing) and "/proj/readme.md" (a file)
RootArgs ==
    {ProjDir, RelPath(<<Proj>>), AbsPath(<<<<"nope">>>>), AbsPath(ReadmeFile)}

Init ==
    /\ files = TreeFiles
    /\ dirs = TreeDirs
    /\ \E ta \in TextsOver({ImportFromLine(d) : d \in BuildSpecifiers}, MaxImports),
          tb \in {<<>>, <<ImportFromLine(ImportA)>>} :
          content = [f \in TreeFiles |->
                        IF f = AFile THEN ta ELSE IF f = BFile THEN tb ELSE <<>>]
    /\ unreadable \in {{}, {BFile}}
    /\ rootArg \in RootArgs
    /\ pc = "start"
    /\ remaining = {}
    /\ graph = <<>>
    /\ output = None
    /\ prev = None
    /\ base = ProbeBase
    /\ result = None

\* main calls build_dependency_graph: the dict is empty, the walk begins
Start ==
    /\ pc = "start"
    /\ graph' = <<>>
    /\ remaining' = RGlob(rootArg)
    /\ pc' = "walk"
    /\ UNCHANGED <<files, dirs, content, unreadable, rootArg, output, prev,
                   base, result>>

\* rglob yields an entry that is no file or is not allowed
SkipEntry ==
    /\ pc = "walk"
    /\ \E file_path \in remaining :
          /\ ~(IsFile(file_path) /\ is_allowed(file_path, FileExtensions))
          /\ remaining' = remaining \ {file_path}
    /\ UNCHANGED <<files, dirs, content, unreadable, rootArg, pc, graph, output,
                   prev, base, result>>

\* rglob yields an allowed file: its key is set, its dependencies are
\* extracted and resolved; a ValueError ends the run
VisitFile ==
    /\ pc = "walk"
    /\ \E file_path \in remaining :
          /\ IsFile(file_path) /\ is_allowed(file_path, FileExtensions)
          /\ LET relative_file_path == RelativeTo(file_path, rootArg)[1]
                 dependencies == get_typescript_dependencies(file_path)
                 r == ResolveAll(file_path, dependencies, rootArg, <<>>)
             IN  /\ graph' = Append(graph, [file |-> relative_file_path,
                                            deps |-> r.edges])
                 /\ pc' = IF r.raised THEN "raised" ELSE "walk"
          /\ remaining' = remaining \ {file_path}
    /\ UNCHANGED <<files, dirs, content, unreadable, rootArg, output, prev,
                   base, result>>

\* the walk is over: the graph is returned, rendered and printed
Return ==
    /\ pc = "walk"
    /\ remaining = {}
    /\ output' = Some(generate_mermaid(graph))
    /\ pc' = "done"
    /\ UNCHANGED <<files, dirs, content, unreadable, rootArg, remaining, graph,
                   prev, base, result>>

Next == Start \/ SkipEntry \/ VisitFile \/ Return

Spec == Init /\ [][Next]_vars

\* main is run a second time over the same tree
Rerun ==
    /\ pc = "done"
    /\ prev = None
    /\ prev' = Some([graph |-> graph, output |-> output[1]])
    /\ pc' = "start"
    /\ graph' = <<>>
    /\ remaining' = {}
    /\ output' = None
    /\ UNCHANGED <<files, dirs, content, unreadable, rootArg, base, result>>

InitRuns ==
    /\ Init
    /\ rootArg = ProjDir
    /\ unreadable = {}
    /\ Len(content[AFile]) <= 1

NextRuns == Start \/ SkipEntry \/ VisitFile \/ Return \/ Rerun

SpecRuns == InitRuns /\ [][NextRuns]_vars

----------------------------------------------------------------------------
(* Vocabulary of the claims about a run *)

RootParts == Resolve(rootArg).parts

HasCacheSegment(parts) == \E k \in 1..Len(parts) : parts[k] = NodeModules

\* relative paths of the regular files under the project root that have a
\* recognized extension and no node_modules segment
EligibleFiles ==
    IF ~IsDir(rootArg) THEN {}
    ELSE {SubSeq(f, Len(RootParts) + 1, Len(f)) :
            f \in {x \in files :
                     /\ IsPrefix(RootParts, x) /\ x # RootParts
                     /\ Suffix(AbsPath(x)) \in {"ts", "tsx", "js", "jsx"}
                     /\ ~HasCacheSegment(SubSeq(x, Len(RootParts) + 1, Len(x)))}}

Keys == {graph[k].file : k \in 1..Len(graph)}

\* the file a key was set for, as the walk named it
KeyPath(k) == Join(rootArg, graph[k].file)

\* the specifiers extracted from the file of key k
KeyDeps(k) == get_typescript_dependencies(KeyPath(k))

IsBare(dep) == ~StartsWithDot(dep) /\ ~StartsWithAlias(dep)

Imports(f, dep) == ImportFromLine(dep) \in SeqRange(content[f])

\* the relative path denotes a file or directory strictly below the root
DenotesDescendant(rel) ==
    LET t == Fold(<<>>, RootParts \o rel)
    IN  IsPrefix(RootParts, t) /\ t # RootParts

----------------------------------------------------------------------------
(* C1 *)

\* C1: in every graph build_dependency_graph returns, every entry of every
\* edge list is a path relative to the project root that denotes a
\* descendant of the project root.
C1_RootContainment ==
    pc = "done" =>
        \A k \in 1..Len(graph) : \A j \in 1..Len(graph[k].deps) :
            DenotesDescendant(graph[k].deps[j])

\* a graph was returned in which a.ts has a relative and an aliased edge
C1_Witness ==
    /\ pc = "done"
    /\ \E k \in 1..Len(graph) :
          /\ graph[k].file = <<<<"a", "ts">>>>
          /\ graph[k].deps = <<<<<<"b", "ts">>>>, <<<<"src">>, <<"lib", "ts">>>>>>

----------------------------------------------------------------------------
(* C2 *)

\* C2: a specifier that climbs above the project root resolves to none even
\* when its target exists: no error is raised, no edge is recorded for it
\* and the returned graph has every eligible file as a key.
C2_EscapeResolvesToNone ==
    (rootArg = ProjDir /\ Imports(AFile, <<Up, <<"out">>>>)) =>
        /\ pc # "raised"
        /\ pc = "done" => /\ Keys = EligibleFiles
                          /\ \A k \in 1..Len(graph) :
                                \A j \in 1..Len(graph[k].deps) :
                                    DenotesDescendant(graph[k].deps[j])

----------------------------------------------------------------------------
(* C4 *)

\* the specifiers with every bare one rewritten to "@/" + specifier
RECURSIVE AliasBare(_)
AliasBare(deps) ==
    IF deps = <<>> THEN <<>>
    ELSE <<IF IsBare(Head(deps)) THEN <<<<"@">>>> \o Head(deps) ELSE Head(deps)>>
         \o AliasBare(Tail(deps))

\* the specifiers without the bare ones
RECURSIVE DropBare(_)
DropBare(deps) ==
    IF deps = <<>> THEN <<>>
    ELSE (IF IsBare(Head(deps)) THEN <<>> ELSE <<Head(deps)>>)
         \o DropBare(Tail(deps))

\* C4 as stated: a bare specifier s is resolved as rooted at <root>/src, so
\* the edges recorded for a file are those recorded when every bare s is
\* written "@/" + s.
C4_BareRootedAtSrc ==
    \A k \in 1..Len(graph) :
        graph[k].deps = ResolveAll(KeyPath(k), AliasBare(KeyDeps(k)), rootArg, <<>>).edges

\* C4 as amended: a bare specifier never contributes an edge, whether or not
\* a candidate for it exists under <root>/src: the edges recorded for a file
\* are those of its relative and aliased specifiers alone.
C4_BareContributesNoEdge ==
    \A k \in 1..Len(graph) :
        graph[k].deps = ResolveAll(KeyPath(k), DropBare(KeyDeps(k)), rootArg, <<>>).edges

\* a.ts imports "lib" and then "@/lib" while src/lib.ts exists, and the
\* returned graph holds the one edge of the aliased specifier
C4_Witness ==
    /\ pc = "done"
    /\ content[AFile] = <<ImportFromLine(<<<<"lib">>>>),
                          ImportFromLine(<<<<"@">>, <<"lib">>>>)>>
    /\ LibFile \in files
    /\ \E k \in 1..Len(graph) :
          /\ graph[k].file = <<<<"a", "ts">>>>
          /\ graph[k].deps = <<<<<<"src">>, <<"lib", "ts">>>>>>

----------------------------------------------------------------------------
(* C6 *)

\* C6: no file under a node_modules segment is ever a key of the graph or
\* an edge target, for any specifier.
C6_CacheNeverInGraph ==
    \A k \in 1..Len(graph) :
        /\ ~HasCacheSegment(graph[k].file)
        /\ \A j \in 1..Len(graph[k].deps) : ~HasCacheSegment(graph[k].deps[j])

----------------------------------------------------------------------------
(* C7 *)

\* C7: when the project root does not exist or is no directory the run
\* fails: no graph is returned and no diagram text is printed.
C7_InvalidRootIsFatal ==
    ~IsDir(rootArg) => (pc # "done" /\ output = None)

----------------------------------------------------------------------------
(* C8 *)

\* C8: two runs over the same snapshot return the same graph (same keys in
\* the same order, same edge lists) and print the same text, whatever
\* order the enumeration yields the files in.
C8_Deterministic ==
    (pc = "done" /\ prev # None) =>
        /\ prev[1].graph = graph
        /\ prev[1].output = output[1]

----------------------------------------------------------------------------
(* C9 *)

\* C9: the returned graph's keys are exactly the regular files under the
\* root with a recognized extension and no node_modules segment, each once;
\* a file that cannot be read is a key with an empty edge list, and it
\* never ends the run.
C9_KeysAreEligibleFiles ==
    /\ pc = "done" =>
          /\ Keys = EligibleFiles
          /\ Len(graph) = Cardinality(EligibleFiles)
          /\ \A k \in 1..Len(graph) :
                Resolve(KeyPath(k)).parts \in unreadable => graph[k].deps = <<>>
    /\ pc = "raised" =>
          Resolve(KeyPath(Len(graph))).parts \notin unreadable

\* b.ts holds an import but cannot be read; the graph returned has the three
\* eligible files as keys, b.ts with no edge and lib.ts with no edge
C9_Witness ==
    /\ pc = "done"
    /\ BFile \in unreadable
    /\ content[BFile] # <<>>
    /\ Len(graph) = 3
    /\ \E k \in 1..Len(graph) :
          graph[k].file = <<<<"b", "ts">>>> /\ graph[k].deps = <<>>
    /\ \E k \in 1..Len(graph) :
          graph[k].file = <<<<"src">>, <<"lib", "ts">>>> /\ graph[k].deps = <<>>
    /\ \E k \in 1..Len(graph) : graph[k].deps # <<>>

----------------------------------------------------------------------------
(* C10 *)

\* C10: when a.ts imports b.ts and b.ts imports a.ts the build raises no
\* error, and the graph it returns has each eligible file as a key once and
\* holds both edges of the cycle.
C10_CycleBuilds ==
    (/\ IsDir(rootArg)
     /\ content[AFile] = <<ImportFromLine(<<Cur, <<"b">>>>)>>
     /\ content[BFile] = <<ImportFromLine(ImportA)>>
     /\ unreadable = {}) =>
        /\ pc # "raised"
        /\ pc = "done" =>
              /\ Len(graph) = Cardinality(EligibleFiles)
              /\ \E k \in 1..Len(graph) :
                    graph[k].file = <<<<"a", "ts">>>>
                    /\ graph[k].deps = <<<<<<"b", "ts">>>>>>
              /\ \E k \in 1..Len(graph) :
                    graph[k].file = <<<<"b", "ts">>>>
                    /\ graph[k].deps = <<<<<<"a", "ts">>>>>>

----------------------------------------------------------------------------
(* C5 *)

\* the specifier of the statement that starts at position p, if the tokens
\* there form one of the three recognized statements
StatementAt(line, p) ==
    IF line[p].t # "import" THEN None
    ELSE IF MatchImportFrom(line, p) # None THEN MatchImportFrom(line, p)
    ELSE IF p + 1 <= Len(line) /\ line[p + 1].t = "ws"
         THEN MatchQuoted(line, p + 2)
    ELSE IF p + 1 <= Len(line) /\ line[p + 1].t = "lp"
         THEN MatchQuoted(line, p + 2)
    ELSE None

RECURSIVE StatementsFrom(_, _)
StatementsFrom(line, p) ==
    IF p > Len(line) THEN <<>>
    ELSE StatementAt(line, p) \o StatementsFrom(line, p + 1)

IsCommentLine(line) ==
    LET p == SkipWs(line, 1) IN p <= Len(line) /\ line[p].t = "cmt"

RECURSIVE RecognizedStatements(_)
RecognizedStatements(text) ==
    IF text = <<>> THEN <<>>
    ELSE (IF IsCommentLine(Head(text)) THEN <<>> ELSE StatementsFrom(Head(text), 1))
         \o RecognizedStatements(Tail(text))

\* C5: get_typescript_dependencies returns, in order and without
\* deduplication, the specifier of every statement of the three recognized
\* forms (import ... from '<spec>', import '<spec>', import('<spec>')
\* anywhere in the text) that is not on a // comment line.
C5_EveryRecognizedForm ==
    (pc = "scanned" /\ unreadable = {}) =>
        result = RecognizedStatements(content[base.parts])

----------------------------------------------------------------------------
(* C3 *)

\* the ordered candidate list: the base path, base/index.<ext> for each
\* extension in order, base.<ext> for each extension in order
CandidateList(b, extensions) ==
    <<b>>
    \o [k \in 1..Len(extensions) |-> Join(b, <<<<"index", extensions[k]>>>>)]
    \o [k \in 1..Len(extensions) |-> AppendExt(b, extensions[k])]

FirstRegularFile(cands) ==
    IF \E k \in 1..Len(cands) : IsFile(cands[k])
    THEN Some(cands[CHOOSE k \in 1..Len(cands) :
                       /\ IsFile(cands[k])
                       /\ \A j \in 1..(k - 1) : ~IsFile(cands[j])])
    ELSE None

\* C3: find_actual_file returns the first existing regular file of the
\* candidate list [base; base/index.<ext> in order; base.<ext> in order],
\* and None exactly when no candidate is an existing regular file.
C3_FirstCandidateWins ==
    pc = "resolved" =>
        result = FirstRegularFile(CandidateList(base, FileExtensions))

\* the base is a directory holding index.tsx but no index.ts, a.ts and a.js
\* both exist, and the index file is returned
C3_Witness ==
    /\ pc = "resolved"
    /\ IsDir(base)
    /\ ~IsFile(Join(base, <<<<"index", "ts">>>>))
    /\ IsFile(Join(base, <<<<"index", "tsx">>>>))
    /\ IsFile(AppendExt(base, "ts"))
    /\ IsFile(AppendExt(base, "js"))
    /\ result = Some(Join(base, <<<<"index", "tsx">>>>))

====
